---- MODULE Spec2Model ----
(***************************************************************************)
(* State-machine model of contracts/DeSci_DataShare_Fhe.sol                *)
(* (contract DeSciDataShareFhe).                                           *)
(*                                                                         *)
(* Every external function of the contract is one action.  A transaction   *)
(* that reverts leaves the contract storage as it was and emits nothing    *)
(* (EVM semantics).  The model records the transaction and its outcome in  *)
(* lastCall, the receipt, so that the error a call ended with can be       *)
(* stated; Idle drops the receipt before the next transaction is sent.     *)
(*                                                                         *)
(* The FHE library is external: a ciphertext handle is modelled as the     *)
(* term that produced it, keccak256 as an injective function of its        *)
(* argument, FHE.checkSignatures as a boolean input of the callback.       *)
(***************************************************************************)
EXTENDS Integers, Sequences, FiniteSets

\* ------------------------------------------------------------------ bounds
NumUsers == 2
MaxBatch == 2
MaxData == 2
MaxRequests == 2
MaxTicks == 2
MaxCleartext == 1
UintBits == 8

\* ------------------------------------------------------- program constants
DefaultCooldown == 60

\* uint256 scaled down to UintBits bits; type(uint256).max
UintMax == 2 ^ UintBits - 1

\* address(0), and the externally owned accounts that can send transactions
ZeroAddress == 0
Users == 1 .. NumUsers
Address == {ZeroAddress} \cup Users
Deployer == 1

\* block.timestamp moves on a grid of half the default cooldown
TimeStep == DefaultCooldown \div 2
MaxTime == MaxTicks * TimeStep

BatchIds == 0 .. MaxBatch
RequestIds == 0 .. MaxRequests
Cleartexts == 0 .. MaxCleartext
CooldownInputs == {0, TimeStep, UintMax}

VARIABLES
    owner,                      \* address public owner
    isProvider,                 \* mapping(address => bool)
    paused,                     \* bool public paused
    cooldownSeconds,            \* uint256 public cooldownSeconds
    lastSubmissionTime,         \* mapping(address => uint256)
    lastDecryptionRequestTime,  \* mapping(address => uint256)
    batches,                    \* mapping(uint256 => Batch)
    currentBatchId,             \* uint256 public currentBatchId
    decryptionContexts,         \* mapping(uint256 => DecryptionContext)
    counterRequest,             \* the oracle's request counter (next requestId)
    now,                        \* block.timestamp
    lastCall,                   \* the last transaction and how it ended
    lastEvents,                 \* the events the last transaction emitted
    decLog                      \* the event stream: name, requestId, batchId of
                                \* each DecryptionRequested and DecryptionCompleted

storage == <<owner, isProvider, paused, cooldownSeconds, lastSubmissionTime,
             lastDecryptionRequestTime, batches, currentBatchId,
             decryptionContexts, counterRequest>>

vars == <<owner, isProvider, paused, cooldownSeconds, lastSubmissionTime,
          lastDecryptionRequestTime, batches, currentBatchId,
          decryptionContexts, counterRequest, now, lastCall, lastEvents, decLog>>

\* ------------------------------------------------------------------ values
\* a storage slot never written reads as zero
EmptyBatch == [isOpen |-> FALSE, dataCount |-> 0]

ZeroHash == <<>>

EmptyContext == [batchId |-> 0, stateHash |-> ZeroHash, processed |-> FALSE]

Call(op, sender, arg, proof, err) ==
    [op |-> op, sender |-> sender, arg |-> arg, proof |-> proof, err |-> err]

\* no receipt is pending: the next transaction can be sent
NoCall == Call("none", ZeroAddress, 0, FALSE, "ok")

Ready == lastCall = NoCall

\* ----------------------------------------------------------------- helpers
\* keccak256(abi.encode(cts, address(this)))
_hashCiphertexts(cts) == <<cts, "this">>

\* The handle of encryptedSum after the loop over dataCount placeholders:
\* _initIfNeeded assigns its own parameter only, so the sum starts
\* uninitialised and the library's add is applied dataCount times.
RECURSIVE encryptedSum(_)
encryptedSum(n) ==
    IF n = 0 THEN <<"uninitialized">>
    ELSE <<"add", encryptedSum(n - 1), <<"asEuint32", 0>>>>

\* encryptedSum.mul(FHE.inv(FHE.asEuint32(dataCount)))
encryptedAverage(batchId) ==
    <<"mul", encryptedSum(batches[batchId].dataCount),
             <<"inv", <<"asEuint32", batches[batchId].dataCount>>>>>>

\* the commitment of a batch as both entry points compute it
stateHashOf(batchId) == _hashCiphertexts(<<encryptedAverage(batchId)>>)

\* a check that forgets that the batch must be closed
_isValidBatchIgnoresOpen(batchId) ==
    /\ batchId <= currentBatchId
    /\ batchId > 0
    /\ batches[batchId].dataCount > 0

\* a check that forgets that the batch must hold data
_isValidBatchIgnoresCount(batchId) ==
    /\ batchId <= currentBatchId
    /\ batchId > 0
    /\ ~batches[batchId].isOpen

_isValidBatchForAnalysis(batchId) ==
    /\ batchId <= currentBatchId
    /\ batchId > 0
    /\ ~batches[batchId].isOpen
    /\ batches[batchId].dataCount > 0

\* an off-by-one in the guard of _closeBatch
_closeBatchDoesStrict(batchId) ==
    batchId > currentBatchId /\ batches[batchId].isOpen

\* the condition under which _closeBatch(batchId) closes the batch
_closeBatchDoes(batchId) ==
    batchId >= currentBatchId /\ batches[batchId].isOpen

\* --------------------------------------------------------------- outcomes
Reverted(call) ==
    /\ lastCall' = call
    /\ lastEvents' = <<>>
    /\ UNCHANGED <<storage, now, decLog>>


Succeeded(call, events) ==
    /\ lastCall' = call
    /\ lastEvents' = events

\* ------------------------------------------------------- the error a call ends with
\* modifier onlyOwner
\* the owner check testing the provider role instead of the owner
onlyOwnerErrChecksProvider(sender) ==
    IF ~isProvider[sender] THEN "NotOwner" ELSE "ok"

onlyOwnerErr(sender) == IF sender # owner THEN "NotOwner" ELSE "ok"

\* the cooldown setter without the zero check
setCooldownSecondsErrAllowsZero(sender, newCooldownSeconds) ==
    IF sender # owner THEN "NotOwner" ELSE "ok"

setCooldownSecondsErr(sender, newCooldownSeconds) ==
    IF sender # owner THEN "NotOwner"
    ELSE IF newCooldownSeconds = 0 THEN "InvalidCooldown"
    ELSE "ok"

\* the rotation without the whenNotPaused modifier
openNewBatchErrIgnoresPause(sender) ==
    IF sender # owner THEN "NotOwner"
    ELSE "ok"

openNewBatchErr(sender) ==
    IF sender # owner THEN "NotOwner"
    ELSE IF paused THEN "Paused"
    ELSE "ok"

\* the submission testing the pause switch before the caller's role
submitDataErrPauseFirst(sender) ==
    IF paused THEN "Paused"
    ELSE IF ~isProvider[sender] THEN "NotProvider"
    ELSE IF lastSubmissionTime[sender] + cooldownSeconds > UintMax THEN "Panic"
    ELSE IF now < lastSubmissionTime[sender] + cooldownSeconds THEN "CooldownActive"
    ELSE IF ~batches[currentBatchId].isOpen THEN "BatchClosedOrInvalid"
    ELSE "ok"

\* checked uint256 addition: last + cooldownSeconds panics past the maximum
submitDataErr(sender) ==
    IF ~isProvider[sender] THEN "NotProvider"
    ELSE IF paused THEN "Paused"
    ELSE IF lastSubmissionTime[sender] + cooldownSeconds > UintMax THEN "Panic"
    ELSE IF now < lastSubmissionTime[sender] + cooldownSeconds THEN "CooldownActive"
    ELSE IF ~batches[currentBatchId].isOpen THEN "BatchClosedOrInvalid"
    ELSE "ok"

requestAverageDecryptionErr(sender, batchId) ==
    IF paused THEN "Paused"
    ELSE IF lastDecryptionRequestTime[sender] + cooldownSeconds > UintMax THEN "Panic"
    ELSE IF now < lastDecryptionRequestTime[sender] + cooldownSeconds THEN "CooldownActive"
    ELSE IF ~_isValidBatchForAnalysis(batchId) THEN "BatchClosedOrInvalid"
    ELSE "ok"

\* the callback with the replay check moved behind the other checks
myCallbackErrReplayLast(requestId, proofValid) ==
    IF stateHashOf(decryptionContexts[requestId].batchId)
            # decryptionContexts[requestId].stateHash THEN "StateMismatch"
    ELSE IF ~proofValid THEN "InvalidProof"
    ELSE IF decryptionContexts[requestId].processed THEN "ReplayAttempt"
    ELSE "ok"

\* the callback without the replay check
myCallbackErrNoReplay(requestId, proofValid) ==
    IF stateHashOf(decryptionContexts[requestId].batchId)
            # decryptionContexts[requestId].stateHash THEN "StateMismatch"
    ELSE IF ~proofValid THEN "InvalidProof"
    ELSE "ok"

\* the callback verifying the proof before it compares the commitment
myCallbackErrProofFirst(requestId, proofValid) ==
    IF decryptionContexts[requestId].processed THEN "ReplayAttempt"
    ELSE IF ~proofValid THEN "InvalidProof"
    ELSE IF stateHashOf(decryptionContexts[requestId].batchId)
                # decryptionContexts[requestId].stateHash THEN "StateMismatch"
    ELSE "ok"

\* the callback without the commitment comparison
myCallbackErrNoHash(requestId, proofValid) ==
    IF decryptionContexts[requestId].processed THEN "ReplayAttempt"
    ELSE IF ~proofValid THEN "InvalidProof"
    ELSE "ok"

\* the callback carrying the whenNotPaused modifier
myCallbackErrWhenNotPaused(requestId, proofValid) ==
    IF paused THEN "Paused"
    ELSE IF decryptionContexts[requestId].processed THEN "ReplayAttempt"
    ELSE IF stateHashOf(decryptionContexts[requestId].batchId)
                # decryptionContexts[requestId].stateHash THEN "StateMismatch"
    ELSE IF ~proofValid THEN "InvalidProof"
    ELSE "ok"

\* proofValid: FHE.checkSignatures(requestId, cleartexts, proof) does not throw
myCallbackErr(requestId, proofValid) ==
    IF decryptionContexts[requestId].processed THEN "ReplayAttempt"
    ELSE IF stateHashOf(decryptionContexts[requestId].batchId)
                # decryptionContexts[requestId].stateHash THEN "StateMismatch"
    ELSE IF ~proofValid THEN "InvalidProof"
    ELSE "ok"

\* ------------------------------------------------------------------- Init
\* the state the constructor leaves, deployed by Deployer at time 0
Init ==
    /\ owner = Deployer
    /\ isProvider = [a \in Address |-> a = Deployer]
    /\ paused = FALSE
    /\ cooldownSeconds = DefaultCooldown
    /\ lastSubmissionTime = [a \in Address |-> 0]
    /\ lastDecryptionRequestTime = [a \in Address |-> 0]
    /\ currentBatchId = 1
    /\ batches = [b \in BatchIds |->
                    IF b = 1 THEN [isOpen |-> TRUE, dataCount |-> 0] ELSE EmptyBatch]
    /\ decryptionContexts = [r \in RequestIds |-> EmptyContext]
    /\ counterRequest = 0
    /\ now = 0
    /\ lastCall = Call("constructor", Deployer, 0, FALSE, "ok")
    /\ lastEvents = <<<<"ProviderAdded", Deployer>>, <<"BatchOpened", 1>>>>
    /\ decLog = <<>>

\* ---------------------------------------------------------------- actions
\* the transfer handing the provider role to the new owner as well
transferOwnershipGrantsProvider(sender, newOwner) ==
    LET err == onlyOwnerErr(sender)
        call == Call("transferOwnership", sender, newOwner, FALSE, err) IN
    /\ Ready
    /\ IF err # "ok" THEN Reverted(call)
       ELSE /\ owner' = newOwner
            /\ isProvider' = [isProvider EXCEPT ![newOwner] = TRUE]
            /\ Succeeded(call, <<<<"OwnershipTransferred", owner, newOwner>>>>)
            /\ UNCHANGED <<paused, cooldownSeconds, lastSubmissionTime,
                           lastDecryptionRequestTime, batches, currentBatchId,
                           decryptionContexts, counterRequest, now, decLog>>

transferOwnership(sender, newOwner) ==
    LET err == onlyOwnerErr(sender)
        call == Call("transferOwnership", sender, newOwner, FALSE, err) IN
    /\ Ready
    /\ IF err # "ok" THEN Reverted(call)
       ELSE /\ owner' = newOwner
            /\ Succeeded(call, <<<<"OwnershipTransferred", owner, newOwner>>>>)
            /\ UNCHANGED <<isProvider, paused, cooldownSeconds, lastSubmissionTime,
                           lastDecryptionRequestTime, batches, currentBatchId,
                           decryptionContexts, counterRequest, now, decLog>>

\* the grant without the membership test: writes and emits on every call
addProviderAlwaysEmits(sender, provider) ==
    LET err == onlyOwnerErr(sender)
        call == Call("addProvider", sender, provider, FALSE, err) IN
    /\ Ready
    /\ IF err # "ok" THEN Reverted(call)
       ELSE /\ isProvider' = [isProvider EXCEPT ![provider] = TRUE]
            /\ Succeeded(call, <<<<"ProviderAdded", provider>>>>)
            /\ UNCHANGED <<owner, paused, cooldownSeconds, lastSubmissionTime,
                           lastDecryptionRequestTime, batches, currentBatchId,
                           decryptionContexts, counterRequest, now, decLog>>

addProvider(sender, provider) ==
    LET err == onlyOwnerErr(sender)
        call == Call("addProvider", sender, provider, FALSE, err) IN
    /\ Ready
    /\ IF err # "ok" THEN Reverted(call)
       ELSE /\ isProvider' = [isProvider EXCEPT ![provider] = TRUE]
            /\ Succeeded(call, IF ~isProvider[provider]
                               THEN <<<<"ProviderAdded", provider>>>> ELSE <<>>)
            /\ UNCHANGED <<owner, paused, cooldownSeconds, lastSubmissionTime,
                           lastDecryptionRequestTime, batches, currentBatchId,
                           decryptionContexts, counterRequest, now, decLog>>

removeProvider(sender, provider) ==
    LET err == onlyOwnerErr(sender)
        call == Call("removeProvider", sender, provider, FALSE, err) IN
    /\ Ready
    /\ IF err # "ok" THEN Reverted(call)
       ELSE /\ isProvider' = [isProvider EXCEPT ![provider] = FALSE]
            /\ Succeeded(call, IF isProvider[provider]
                               THEN <<<<"ProviderRemoved", provider>>>> ELSE <<>>)
            /\ UNCHANGED <<owner, paused, cooldownSeconds, lastSubmissionTime,
                           lastDecryptionRequestTime, batches, currentBatchId,
                           decryptionContexts, counterRequest, now, decLog>>

setPaused(sender, _paused) ==
    LET err == onlyOwnerErr(sender)
        call == Call("setPaused", sender, _paused, FALSE, err) IN
    /\ Ready
    /\ IF err # "ok" THEN Reverted(call)
       ELSE /\ paused' = _paused
            /\ Succeeded(call, <<<<"PauseToggled", _paused>>>>)
            /\ UNCHANGED <<owner, isProvider, cooldownSeconds, lastSubmissionTime,
                           lastDecryptionRequestTime, batches, currentBatchId,
                           decryptionContexts, counterRequest, now, decLog>>

setCooldownSeconds(sender, newCooldownSeconds) ==
    LET err == setCooldownSecondsErr(sender, newCooldownSeconds)
        call == Call("setCooldownSeconds", sender, newCooldownSeconds, FALSE, err) IN
    /\ Ready
    /\ IF err # "ok" THEN Reverted(call)
       ELSE /\ cooldownSeconds' = newCooldownSeconds
            /\ Succeeded(call, <<<<"CooldownSecondsSet", cooldownSeconds,
                                   newCooldownSeconds>>>>)
            /\ UNCHANGED <<owner, isProvider, paused, lastSubmissionTime,
                           lastDecryptionRequestTime, batches, currentBatchId,
                           decryptionContexts, counterRequest, now, decLog>>

\* the rotation without _openBatch: the new current batch stays closed
openNewBatchNoOpen(sender) ==
    LET err == openNewBatchErr(sender)
        call == Call("openNewBatch", sender, 0, FALSE, err) IN
    /\ Ready
    /\ IF err # "ok" THEN Reverted(call)
       ELSE /\ currentBatchId < MaxBatch
            /\ currentBatchId' = currentBatchId + 1
            /\ batches' = [batches EXCEPT
                   ![currentBatchId] =
                       IF _closeBatchDoes(currentBatchId)
                       THEN [@ EXCEPT !.isOpen = FALSE] ELSE @]
            /\ Succeeded(call,
                   IF _closeBatchDoes(currentBatchId)
                   THEN <<<<"BatchClosed", currentBatchId>>>> ELSE <<>>)
            /\ UNCHANGED <<owner, isProvider, paused, cooldownSeconds,
                           lastSubmissionTime, lastDecryptionRequestTime,
                           decryptionContexts, counterRequest, now, decLog>>

\* the rotation without currentBatchId++: the current id is opened again
openNewBatchNoIncrement(sender) ==
    LET err == openNewBatchErr(sender)
        call == Call("openNewBatch", sender, 0, FALSE, err) IN
    /\ Ready
    /\ IF err # "ok" THEN Reverted(call)
       ELSE /\ batches' = [batches EXCEPT
                   ![currentBatchId] = [isOpen |-> TRUE, dataCount |-> 0]]
            /\ Succeeded(call,
                   (IF _closeBatchDoes(currentBatchId)
                    THEN <<<<"BatchClosed", currentBatchId>>>> ELSE <<>>)
                   \o <<<<"BatchOpened", currentBatchId>>>>)
            /\ UNCHANGED <<owner, isProvider, paused, cooldownSeconds,
                           lastSubmissionTime, lastDecryptionRequestTime,
                           currentBatchId, decryptionContexts, counterRequest,
                           now, decLog>>

\* _closeBatch(currentBatchId); currentBatchId++; _openBatch(currentBatchId)
openNewBatch(sender) ==
    LET err == openNewBatchErr(sender)
        call == Call("openNewBatch", sender, 0, FALSE, err) IN
    /\ Ready
    /\ IF err # "ok" THEN Reverted(call)
       ELSE /\ currentBatchId < MaxBatch
            /\ currentBatchId' = currentBatchId + 1
            /\ batches' = [batches EXCEPT
                   ![currentBatchId] =
                       IF _closeBatchDoes(currentBatchId)
                       THEN [@ EXCEPT !.isOpen = FALSE] ELSE @,
                   ![currentBatchId + 1] = [isOpen |-> TRUE, dataCount |-> 0]]
            /\ Succeeded(call,
                   (IF _closeBatchDoes(currentBatchId)
                    THEN <<<<"BatchClosed", currentBatchId>>>> ELSE <<>>)
                   \o <<<<"BatchOpened", currentBatchId + 1>>>>)
            /\ UNCHANGED <<owner, isProvider, paused, cooldownSeconds,
                           lastSubmissionTime, lastDecryptionRequestTime,
                           decryptionContexts, counterRequest, now, decLog>>

submitData(sender) ==
    LET err == submitDataErr(sender)
        call == Call("submitData", sender, 0, FALSE, err) IN
    /\ Ready
    /\ IF err # "ok" THEN Reverted(call)
       ELSE /\ batches[currentBatchId].dataCount < MaxData
            /\ lastSubmissionTime' = [lastSubmissionTime EXCEPT ![sender] = now]
            /\ batches' = [batches EXCEPT ![currentBatchId].dataCount = @ + 1]
            /\ Succeeded(call, <<<<"DataSubmitted", sender, currentBatchId,
                                   batches[currentBatchId].dataCount + 1>>>>)
            /\ UNCHANGED <<owner, isProvider, paused, cooldownSeconds,
                           lastDecryptionRequestTime, currentBatchId,
                           decryptionContexts, counterRequest, now, decLog>>

\* the request recording its time in both timestamp tables: one clock per actor
requestAverageDecryptionSharedClock(sender, batchId) ==
    LET err == requestAverageDecryptionErr(sender, batchId)
        call == Call("requestAverageDecryption", sender, batchId, FALSE, err)
        requestId == counterRequest IN
    /\ Ready
    /\ IF err # "ok" THEN Reverted(call)
       ELSE /\ counterRequest < MaxRequests
            /\ lastDecryptionRequestTime' =
                   [lastDecryptionRequestTime EXCEPT ![sender] = now]
            /\ lastSubmissionTime' = [lastSubmissionTime EXCEPT ![sender] = now]
            /\ counterRequest' = counterRequest + 1
            /\ decryptionContexts' = [decryptionContexts EXCEPT ![requestId] =
                   [batchId |-> batchId, stateHash |-> stateHashOf(batchId),
                    processed |-> FALSE]]
            /\ Succeeded(call, <<<<"DecryptionRequested", requestId, batchId>>>>)
            /\ decLog' = Append(decLog, <<"DecryptionRequested", requestId, batchId>>)
            /\ UNCHANGED <<owner, isProvider, paused, cooldownSeconds,
                           batches, currentBatchId, now>>

\* the request recording the caller's timestamp before the batch is validated,
\* on a host that does not roll the write back
requestAverageDecryptionEarlyWrite(sender, batchId) ==
    LET err == requestAverageDecryptionErr(sender, batchId)
        call == Call("requestAverageDecryption", sender, batchId, FALSE, err)
        requestId == counterRequest IN
    /\ Ready
    /\ IF err = "BatchClosedOrInvalid"
       THEN /\ lastDecryptionRequestTime' =
                   [lastDecryptionRequestTime EXCEPT ![sender] = now]
            /\ Succeeded(call, <<>>)
            /\ UNCHANGED <<owner, isProvider, paused, cooldownSeconds,
                           lastSubmissionTime, batches, currentBatchId,
                           decryptionContexts, counterRequest, now, decLog>>
       ELSE IF err # "ok" THEN Reverted(call)
       ELSE /\ counterRequest < MaxRequests
            /\ lastDecryptionRequestTime' =
                   [lastDecryptionRequestTime EXCEPT ![sender] = now]
            /\ counterRequest' = counterRequest + 1
            /\ decryptionContexts' = [decryptionContexts EXCEPT ![requestId] =
                   [batchId |-> batchId, stateHash |-> stateHashOf(batchId),
                    processed |-> FALSE]]
            /\ Succeeded(call, <<<<"DecryptionRequested", requestId, batchId>>>>)
            /\ decLog' = Append(decLog, <<"DecryptionRequested", requestId, batchId>>)
            /\ UNCHANGED <<owner, isProvider, paused, cooldownSeconds,
                           lastSubmissionTime, batches, currentBatchId, now>>

\* requestId is the oracle's fresh id, FHE.requestDecryption(cts, selector)
requestAverageDecryption(sender, batchId) ==
    LET err == requestAverageDecryptionErr(sender, batchId)
        call == Call("requestAverageDecryption", sender, batchId, FALSE, err)
        requestId == counterRequest IN
    /\ Ready
    /\ IF err # "ok" THEN Reverted(call)
       ELSE /\ counterRequest < MaxRequests
            /\ lastDecryptionRequestTime' =
                   [lastDecryptionRequestTime EXCEPT ![sender] = now]
            /\ counterRequest' = counterRequest + 1
            /\ decryptionContexts' = [decryptionContexts EXCEPT ![requestId] =
                   [batchId |-> batchId, stateHash |-> stateHashOf(batchId),
                    processed |-> FALSE]]
            /\ Succeeded(call, <<<<"DecryptionRequested", requestId, batchId>>>>)
            /\ decLog' = Append(decLog, <<"DecryptionRequested", requestId, batchId>>)
            /\ UNCHANGED <<owner, isProvider, paused, cooldownSeconds,
                           lastSubmissionTime, batches, currentBatchId, now>>

\* the callback deleting the request's entry when it completes
myCallbackBodyDeletesContext(sender, requestId, cleartexts, proofValid) ==
    LET err == myCallbackErr(requestId, proofValid)
        call == Call("myCallback", sender, requestId, proofValid, err)
        batchId == decryptionContexts[requestId].batchId IN
    IF err # "ok" THEN Reverted(call)
    ELSE /\ decryptionContexts' =
                [decryptionContexts EXCEPT ![requestId] =
                    [EmptyContext EXCEPT !.processed = TRUE]]
         /\ Succeeded(call, <<<<"DecryptionCompleted", requestId, batchId,
                                cleartexts>>>>)
         /\ decLog' = Append(decLog, <<"DecryptionCompleted", requestId, batchId>>)
         /\ UNCHANGED <<owner, isProvider, paused, cooldownSeconds,
                        lastSubmissionTime, lastDecryptionRequestTime, batches,
                        currentBatchId, counterRequest, now>>

\* a valid proof authenticates a well-formed cleartext, which abi.decode accepts
myCallbackBody(sender, requestId, cleartexts, proofValid) ==
    LET err == myCallbackErr(requestId, proofValid)
        call == Call("myCallback", sender, requestId, proofValid, err)
        batchId == decryptionContexts[requestId].batchId IN
    IF err # "ok" THEN Reverted(call)
    ELSE /\ decryptionContexts' =
                [decryptionContexts EXCEPT ![requestId].processed = TRUE]
         /\ Succeeded(call, <<<<"DecryptionCompleted", requestId, batchId,
                                cleartexts>>>>)
         /\ decLog' = Append(decLog, <<"DecryptionCompleted", requestId, batchId>>)
         /\ UNCHANGED <<owner, isProvider, paused, cooldownSeconds,
                        lastSubmissionTime, lastDecryptionRequestTime, batches,
                        currentBatchId, counterRequest, now>>

myCallback(sender, requestId, cleartexts, proofValid) ==
    Ready /\ myCallbackBody(sender, requestId, cleartexts, proofValid)

\* the next block is mined later: block.timestamp advances
Tick ==
    /\ Ready
    /\ now + TimeStep <= MaxTime
    /\ now' = now + TimeStep
    /\ UNCHANGED <<storage, lastCall, lastEvents, decLog>>

\* the receipt of the last transaction has been read
Idle ==
    /\ ~Ready
    /\ lastCall' = NoCall
    /\ lastEvents' = <<>>
    /\ UNCHANGED <<storage, now, decLog>>

Next ==
    \/ \E s \in Users, a \in Address : transferOwnership(s, a)
    \/ \E s \in Users, a \in Users : addProvider(s, a)
    \/ \E s \in Users, a \in Users : removeProvider(s, a)
    \/ \E s \in Users, p \in BOOLEAN : setPaused(s, p)
    \/ \E s \in Users, c \in CooldownInputs : setCooldownSeconds(s, c)
    \/ \E s \in Users : openNewBatch(s)
    \/ \E s \in Users : submitData(s)
    \/ \E s \in Users, b \in BatchIds : requestAverageDecryption(s, b)
    \/ \E s \in Users, r \in RequestIds, c \in Cleartexts, p \in BOOLEAN :
            myCallback(s, r, c, p)
    \/ Tick
    \/ Idle

Spec == Init /\ [][Next]_vars


\* ------------------------------------------------------------ observations
\* requestId was stored by a successful requestAverageDecryption
Stored(requestId) == requestId < counterRequest

IsCompleted(e, requestId) == e[1] = "DecryptionCompleted" /\ e[2] = requestId

CompletedAt(log, requestId) ==
    {i \in 1 .. Len(log) : IsCompleted(log[i], requestId)}

\* the commitment recomputed now differs from the one stored with the request
Mismatch(requestId) ==
    stateHashOf(decryptionContexts[requestId].batchId)
        # decryptionContexts[requestId].stateHash

\* the cooldown check of requestAverageDecryption lets sender pass
OutsideRequestCooldown(sender) ==
    now >= lastDecryptionRequestTime[sender] + cooldownSeconds

IsCall(call, op) == call.op = op

\* ------------------------------------------------------------------ claims

\* C1: in every reachable state exactly one batch is open, and it is the
\* batch whose id is currentBatchId.
C1_OneOpenBatch ==
    /\ Cardinality({b \in BatchIds : batches[b].isOpen}) = 1
    /\ batches[currentBatchId].isOpen

\* C1 witness: openNewBatch has rotated from batch 1 to batch 2.
C1_Witness ==
    /\ IsCall(lastCall, "openNewBatch") /\ lastCall.err = "ok"
    /\ currentBatchId = 2 /\ ~batches[1].isOpen /\ batches[1].dataCount > 0

\* C2: for a stored request, a callback with a valid proof succeeds as long
\* as no callback has completed it, and every callback after the completing
\* one fails with ReplayAttempt, whatever proof it carries.
C2_FirstThenReplay ==
    [][(IsCall(lastCall', "myCallback") /\ Stored(lastCall'.arg)) =>
          IF CompletedAt(decLog, lastCall'.arg) # {}
          THEN lastCall'.err = "ReplayAttempt"
          ELSE (lastCall'.proof => lastCall'.err = "ok")]_vars

\* C2 witness: a second callback with valid data was rejected as a replay.
C2_Witness ==
    /\ IsCall(lastCall, "myCallback") /\ lastCall.proof
    /\ lastCall.err = "ReplayAttempt"
    /\ CompletedAt(decLog, lastCall.arg) # {}

\* C3: processed is false when a request is created, never goes back to
\* false, and at most one DecryptionCompleted is emitted per requestId.
C3_ProcessedMonotone ==
    [][\A r \in RequestIds :
          /\ decryptionContexts[r].processed => decryptionContexts'[r].processed
          /\ (r = counterRequest /\ counterRequest' # counterRequest)
                => ~decryptionContexts'[r].processed
          /\ Cardinality(CompletedAt(decLog', r)) <= 1]_vars

\* C3 witness: a second request was stored after the first was fulfilled.
C3_Witness ==
    /\ IsCall(lastCall, "requestAverageDecryption") /\ lastCall.err = "ok"
    /\ counterRequest = 2
    /\ decryptionContexts[0].processed /\ ~decryptionContexts[1].processed

\* C4: the commitment recomputed for a stored request always equals the one
\* stored with it, so a callback for a stored request never ends with
\* StateMismatch.
C4_CommitmentStable ==
    /\ \A r \in RequestIds : Stored(r) => ~Mismatch(r)
    /\ (IsCall(lastCall, "myCallback") /\ Stored(lastCall.arg))
          => lastCall.err # "StateMismatch"

\* C4 witness: a request was fulfilled after a submission made later than it.
C4_Witness ==
    /\ IsCall(lastCall, "myCallback") /\ lastCall.err = "ok"
    /\ counterRequest = 1
    /\ \E u, v \in Users :
          /\ lastDecryptionRequestTime[v] > 0
          /\ lastSubmissionTime[u] > lastDecryptionRequestTime[v]

C6_UnknownRequest ==
    (IsCall(lastCall, "myCallback") /\ ~Stored(lastCall.arg))
        => lastCall.err = "UnknownRequest"

\* C7: a request becomes processed, and DecryptionCompleted is emitted, only
\* by a callback whose commitment matches and whose proof verifies; every
\* DecryptionCompleted in the stream comes after a DecryptionRequested with
\* the same requestId and batchId.
C7_CompletedOnlyAfterRequested ==
    [][/\ \A r \in RequestIds :
             (\/ ~decryptionContexts[r].processed /\ decryptionContexts'[r].processed
              \/ CompletedAt(decLog', r) # CompletedAt(decLog, r))
             => /\ IsCall(lastCall', "myCallback") /\ lastCall'.arg = r
                /\ lastCall'.err = "ok" /\ lastCall'.proof
                /\ ~Mismatch(r)
       /\ \A i \in 1 .. Len(decLog') :
             decLog'[i][1] = "DecryptionCompleted"
             => \E j \in 1 .. i - 1 :
                   /\ decLog'[j][1] = "DecryptionRequested"
                   /\ decLog'[j][2] = decLog'[i][2]
                   /\ decLog'[j][3] = decLog'[i][3]]_vars

\* C7 witness: a callback has completed a request.
C7_Witness ==
    /\ IsCall(lastCall, "myCallback") /\ lastCall.err = "ok"
    /\ Len(decLog) >= 2
    /\ decLog[Len(decLog)][1] = "DecryptionCompleted"

C9_RequestSucceeds ==
    [][(/\ IsCall(lastCall', "requestAverageDecryption")
        /\ OutsideRequestCooldown(lastCall'.sender)
        /\ _isValidBatchForAnalysis(lastCall'.arg))
          => lastCall'.err = "ok"]_vars

\* the batch is the open one, or a closed one without data
OpenOrEmpty(batchId) ==
    \/ batchId = currentBatchId
    \/ /\ batchId > 0 /\ batchId < currentBatchId
       /\ ~batches[batchId].isOpen /\ batches[batchId].dataCount = 0

\* C10 as stated: a request on the open batch, or on a closed batch without
\* data, is rejected with BatchClosedOrInvalid.
C10_AlwaysBatchClosedOrInvalid ==
    [][(IsCall(lastCall', "requestAverageDecryption") /\ OpenOrEmpty(lastCall'.arg))
          => lastCall'.err = "BatchClosedOrInvalid"]_vars

\* C10 amended: a request on the open batch, or on a closed batch without
\* data, never succeeds and stores nothing; it ends with BatchClosedOrInvalid
\* whenever the pause and cooldown checks, which run first, let it pass.
C10_NeverAccepted ==
    [][(IsCall(lastCall', "requestAverageDecryption") /\ OpenOrEmpty(lastCall'.arg))
          => /\ lastCall'.err \in {"Paused", "Panic", "CooldownActive",
                                   "BatchClosedOrInvalid"}
             /\ UNCHANGED <<decryptionContexts, counterRequest, decLog>>
             /\ (~paused /\ OutsideRequestCooldown(lastCall'.sender)
                 /\ lastDecryptionRequestTime[lastCall'.sender] + cooldownSeconds
                        <= UintMax)
                   => lastCall'.err = "BatchClosedOrInvalid"]_vars

\* C10 witness: a request on a closed batch without data was rejected with
\* BatchClosedOrInvalid.
C10_Witness ==
    /\ IsCall(lastCall, "requestAverageDecryption")
    /\ lastCall.err = "BatchClosedOrInvalid"
    /\ lastCall.arg > 0 /\ lastCall.arg < currentBatchId
    /\ batches[lastCall.arg].dataCount = 0


\* C11: for every batch id dataCount never decreases, grows only by one and
\* only by a successful submitData into that batch while it is open, and
\* does not change once the batch is closed.
C11_DataCountFrozen ==
    [][\A b \in BatchIds :
          /\ batches'[b].dataCount >= batches[b].dataCount
          /\ batches'[b].dataCount # batches[b].dataCount
                => /\ batches'[b].dataCount = batches[b].dataCount + 1
                   /\ IsCall(lastCall', "submitData") /\ lastCall'.err = "ok"
                   /\ batches[b].isOpen /\ batches'[b].isOpen
          /\ (b < currentBatchId /\ ~batches[b].isOpen)
                => batches'[b].dataCount = batches[b].dataCount]_vars

\* C11 witness: a submission was counted in batch 2 while batch 1 is closed
\* with its own count.
C11_Witness ==
    /\ IsCall(lastCall, "submitData") /\ lastCall.err = "ok"
    /\ currentBatchId = 2 /\ batches[2].dataCount = 1
    /\ ~batches[1].isOpen /\ batches[1].dataCount = 2

\* C12: currentBatchId starts at 1 and changes only by a successful
\* openNewBatch, by exactly one; that call leaves the old batch closed with
\* its dataCount, the new batch open and empty, and emits BatchClosed then
\* BatchOpened; a closed batch is never open again.
C12_BatchRotation ==
    /\ currentBatchId = 1
    /\ [][/\ currentBatchId' # currentBatchId
                => IsCall(lastCall', "openNewBatch") /\ lastCall'.err = "ok"
          /\ (IsCall(lastCall', "openNewBatch") /\ lastCall'.err = "ok")
                => /\ currentBatchId' = currentBatchId + 1
                   /\ batches'[currentBatchId] =
                         [isOpen |-> FALSE,
                          dataCount |-> batches[currentBatchId].dataCount]
                   /\ batches'[currentBatchId'] =
                         [isOpen |-> TRUE, dataCount |-> 0]
                   /\ lastEvents' = <<<<"BatchClosed", currentBatchId>>,
                                      <<"BatchOpened", currentBatchId'>>>>
          /\ \A b \in BatchIds :
                (b < currentBatchId /\ ~batches[b].isOpen) => ~batches'[b].isOpen]_vars

\* C12 witness: the rotation from batch 1 to batch 2 emitted both events.
C12_Witness ==
    /\ IsCall(lastCall, "openNewBatch") /\ lastCall.err = "ok"
    /\ currentBatchId = 2
    /\ lastEvents = <<<<"BatchClosed", 1>>, <<"BatchOpened", 2>>>>


\* sender has an accepted submission on record (none is accepted at time 0)
HasSubmitted(sender) == lastSubmissionTime[sender] > 0

\* C13: for a provider with an accepted submission at time last, while the
\* contract is not paused, a submission at now < last + cooldownSeconds is
\* rejected with CooldownActive and one at now = last + cooldownSeconds is
\* accepted.
C13_CooldownBoundary ==
    [][(/\ IsCall(lastCall', "submitData")
        /\ isProvider[lastCall'.sender] /\ ~paused
        /\ HasSubmitted(lastCall'.sender))
          => /\ now < lastSubmissionTime[lastCall'.sender] + cooldownSeconds
                   => lastCall'.err = "CooldownActive"
             /\ now = lastSubmissionTime[lastCall'.sender] + cooldownSeconds
                   => lastCall'.err = "ok"]_vars

\* C14: the first rate-limited action of an actor without a recorded
\* timestamp is admitted at any time: a provider that never submitted is
\* accepted while the contract is not paused, also at now < cooldownSeconds,
\* and a first decryption request is never met with CooldownActive.
C14_FirstActionAdmitted ==
    [][/\ (/\ IsCall(lastCall', "submitData")
           /\ isProvider[lastCall'.sender] /\ ~paused
           /\ ~HasSubmitted(lastCall'.sender))
             => lastCall'.err = "ok"
       /\ (/\ IsCall(lastCall', "requestAverageDecryption")
           /\ lastDecryptionRequestTime[lastCall'.sender] = 0)
             => lastCall'.err # "CooldownActive"]_vars


\* C15: a submission by an address that is not a provider is rejected with
\* NotProvider, whether or not the contract is paused and whatever the
\* caller's cooldown.
C15_NonProviderRejected ==
    (IsCall(lastCall, "submitData") /\ ~isProvider[lastCall.sender])
        => lastCall.err = "NotProvider"

\* C15 witness: a removed provider, inside its cooldown, was rejected with
\* NotProvider while the contract was paused.
C15_Witness ==
    /\ IsCall(lastCall, "submitData") /\ lastCall.err = "NotProvider"
    /\ paused
    /\ HasSubmitted(lastCall.sender)
    /\ now < lastSubmissionTime[lastCall.sender] + cooldownSeconds

AdminOps == {"transferOwnership", "addProvider", "removeProvider", "setPaused",
             "setCooldownSeconds"}

\* C16: while paused every submission by a provider and every openNewBatch
\* by the owner fails with Paused, the owner's administration calls still
\* succeed (setCooldownSeconds with a value above 0), and once
\* setPaused(false) has run neither call fails with Paused.
C16_PauseBlocksOnlySubmitAndRotate ==
    [][/\ paused =>
            /\ (IsCall(lastCall', "submitData") /\ isProvider[lastCall'.sender])
                  => lastCall'.err = "Paused"
            /\ (IsCall(lastCall', "openNewBatch") /\ lastCall'.sender = owner)
                  => lastCall'.err = "Paused"
            /\ (/\ lastCall'.op \in AdminOps /\ lastCall'.sender = owner
                /\ ~(IsCall(lastCall', "setCooldownSeconds") /\ lastCall'.arg = 0))
                  => lastCall'.err = "ok"
       /\ (IsCall(lastCall', "setPaused") /\ lastCall'.err = "ok")
            => paused' = lastCall'.arg
       /\ ~paused =>
            /\ IsCall(lastCall', "submitData") => lastCall'.err # "Paused"
            /\ (IsCall(lastCall', "openNewBatch") /\ lastCall'.sender = owner)
                  => lastCall'.err = "ok"]_vars

\* C16 witness: addProvider succeeded while the contract was paused.
C16_Witness ==
    /\ IsCall(lastCall, "addProvider") /\ lastCall.err = "ok"
    /\ paused
    /\ lastEvents = <<<<"ProviderAdded", lastCall.arg>>>>


OwnerOps == AdminOps \cup {"openNewBatch"}

\* C17: each of transferOwnership, addProvider, removeProvider, setPaused,
\* setCooldownSeconds and openNewBatch fails with NotOwner and changes
\* nothing when the caller is not the current owner, never fails with
\* NotOwner when the caller is the owner, and a successful
\* transferOwnership(newOwner) makes newOwner the one owner the next call
\* is tested against.
C17_OnlyOwnerAdministers ==
    [][/\ (lastCall'.op \in OwnerOps /\ lastCall'.sender # owner)
            => /\ lastCall'.err = "NotOwner"
               /\ lastEvents' = <<>>
               /\ UNCHANGED storage
       /\ (lastCall'.op \in OwnerOps /\ lastCall'.sender = owner)
            => lastCall'.err # "NotOwner"
       /\ (IsCall(lastCall', "transferOwnership") /\ lastCall'.err = "ok")
            => /\ owner' = lastCall'.arg
               /\ lastEvents' = <<<<"OwnershipTransferred", owner, owner'>>>>
       /\ owner' # owner
            => IsCall(lastCall', "transferOwnership") /\ lastCall'.err = "ok"]_vars

\* C17 witness: after the deployer transferred ownership, the deployer,
\* still a provider, was rejected with NotOwner.
C17_Witness ==
    /\ lastCall.op \in OwnerOps /\ lastCall.err = "NotOwner"
    /\ lastCall.sender = Deployer /\ isProvider[Deployer]
    /\ owner \in Users \ {Deployer}

\* C18: in every state reachable after construction the owner is not the
\* zero address.
C18_OwnerNeverZero == owner # ZeroAddress

\* C19: cooldownSeconds is above 0 in every state: it is 60 after
\* construction, setCooldownSeconds(0) by the owner fails with
\* InvalidCooldown and leaves it unchanged, setCooldownSeconds(s) with
\* s > 0 by the owner sets it to s and emits CooldownSecondsSet(old, s),
\* and nothing else changes it.
C19_CooldownPositive ==
    /\ cooldownSeconds = DefaultCooldown
    /\ [][/\ cooldownSeconds' > 0
          /\ (IsCall(lastCall', "setCooldownSeconds") /\ lastCall'.sender = owner)
               => IF lastCall'.arg = 0
                  THEN /\ lastCall'.err = "InvalidCooldown"
                       /\ lastEvents' = <<>>
                       /\ UNCHANGED storage
                  ELSE /\ lastCall'.err = "ok"
                       /\ cooldownSeconds' = lastCall'.arg
                       /\ lastEvents' = <<<<"CooldownSecondsSet", cooldownSeconds,
                                            lastCall'.arg>>>>
          /\ cooldownSeconds' # cooldownSeconds
               => IsCall(lastCall', "setCooldownSeconds") /\ lastCall'.err = "ok"]_vars

\* C19 witness: the owner changed the cooldown from 60 to a smaller value
\* and the event carries both.
C19_Witness ==
    /\ IsCall(lastCall, "setCooldownSeconds") /\ lastCall.err = "ok"
    /\ cooldownSeconds = TimeStep
    /\ lastEvents = <<<<"CooldownSecondsSet", DefaultCooldown, TimeStep>>>>

\* C20: addProvider(a) when a is already a provider and removeProvider(a)
\* when a is not a provider succeed without changing state and without an
\* event; addProvider leaves a a provider and removeProvider leaves a not a
\* provider, so a second application in a row is such a no-op.
C20_ProviderOpsIdempotent ==
    [][/\ (IsCall(lastCall', "addProvider") /\ lastCall'.err = "ok")
            => /\ isProvider'[lastCall'.arg]
               /\ \A a \in Address \ {lastCall'.arg} : isProvider'[a] = isProvider[a]
               /\ IF isProvider[lastCall'.arg]
                  THEN lastEvents' = <<>> /\ UNCHANGED storage
                  ELSE lastEvents' = <<<<"ProviderAdded", lastCall'.arg>>>>
       /\ (IsCall(lastCall', "removeProvider") /\ lastCall'.err = "ok")
            => /\ ~isProvider'[lastCall'.arg]
               /\ \A a \in Address \ {lastCall'.arg} : isProvider'[a] = isProvider[a]
               /\ IF ~isProvider[lastCall'.arg]
                  THEN lastEvents' = <<>> /\ UNCHANGED storage
                  ELSE lastEvents' = <<<<"ProviderRemoved", lastCall'.arg>>>>
       /\ (lastCall'.op \in {"addProvider", "removeProvider"}
           /\ lastCall'.sender = owner)
            => lastCall'.err = "ok"]_vars

\* C20 witness: addProvider of an address other than the deployer that was
\* already a provider succeeded with no event.
C20_Witness ==
    /\ IsCall(lastCall, "addProvider") /\ lastCall.err = "ok"
    /\ lastCall.arg # Deployer /\ isProvider[lastCall.arg]
    /\ lastEvents = <<>>


\* requestId is stored and its callback has not been accepted yet
Pending(requestId) ==
    Stored(requestId) /\ ~decryptionContexts[requestId].processed

\* C21: a stored request that is not fulfilled keeps its entry (batchId and
\* commitment) through every step, becomes fulfilled only by a successful
\* myCallback for its own id, and every myCallback for it with a valid
\* proof is accepted, paused or not and whoever sends it.
C21_NoCancellation ==
    [][\A r \in RequestIds :
          Pending(r) =>
             /\ Stored(r)'
             /\ decryptionContexts'[r].batchId = decryptionContexts[r].batchId
             /\ decryptionContexts'[r].stateHash = decryptionContexts[r].stateHash
             /\ decryptionContexts'[r].processed
                   => /\ IsCall(lastCall', "myCallback")
                      /\ lastCall'.arg = r /\ lastCall'.err = "ok"
             /\ (/\ IsCall(lastCall', "myCallback")
                 /\ lastCall'.arg = r /\ lastCall'.proof)
                   => lastCall'.err = "ok"]_vars

\* C21 witness: a request of an earlier time was fulfilled while the
\* contract was paused, by a caller that is neither owner nor provider,
\* after the batch rotation and a later submission.
C21_Witness ==
    /\ IsCall(lastCall, "myCallback") /\ lastCall.err = "ok"
    /\ paused
    /\ lastCall.sender # owner /\ ~isProvider[lastCall.sender]
    /\ batches[currentBatchId].dataCount > 0
    /\ now > lastDecryptionRequestTime[Deployer]
    /\ lastDecryptionRequestTime[Deployer] > 0


\* ---------------------------------------------------------------- liveness
\* The oracle answers requestId with a signed cleartext: the callback
\* transaction with a valid proof.  A transaction can be sent in every
\* state of the contract, whatever receipt the previous one left.
oracleCallback(requestId) ==
    /\ Pending(requestId)
    /\ \E s \in Users, c \in Cleartexts : myCallbackBody(s, requestId, c, TRUE)

\* Every operation of the contract is interleaved with the oracle.  The
\* provider set changes through the deployer's membership only, which keeps
\* the graph the fairness check walks small; C21 covers the rest on Spec.
LiveNext ==
    \/ \E s \in Users, a \in Address : transferOwnership(s, a)
    \/ \E s \in Users : addProvider(s, Deployer)
    \/ \E s \in Users : removeProvider(s, Deployer)
    \/ \E s \in Users, p \in BOOLEAN : setPaused(s, p)
    \/ \E s \in Users, c \in CooldownInputs : setCooldownSeconds(s, c)
    \/ \E s \in Users : openNewBatch(s)
    \/ \E s \in Users : submitData(s)
    \/ \E s \in Users, b \in BatchIds : requestAverageDecryption(s, b)
    \/ \E s \in Users, r \in RequestIds, c \in Cleartexts, p \in BOOLEAN :
            myCallback(s, r, c, p)
    \/ Tick
    \/ Idle
    \/ \E r \in RequestIds : oracleCallback(r)

LiveSpec ==
    /\ Init
    /\ [][LiveNext]_vars
    /\ \A r \in RequestIds : WF_vars(oracleCallback(r))

\* C22: under weak fairness of the oracle's callback with a valid proof for
\* each issued requestId, every stored request is eventually fulfilled,
\* whatever other operations are interleaved.
C22_PendingLeadsToFulfilled ==
    \A r \in RequestIds : Pending(r) ~> decryptionContexts[r].processed

\* C22 witness: a callback with a valid proof fulfilled a request while the
\* contract was paused, after every request the bound allows was issued.
C22_Witness ==
    /\ IsCall(lastCall, "myCallback") /\ lastCall.err = "ok" /\ lastCall.proof
    /\ decryptionContexts[lastCall.arg].processed
    /\ paused
    /\ counterRequest = MaxRequests


\* C23: a successful requestAverageDecryption changes only the caller's
\* decryption-request timestamp and the request table, by one new entry:
\* batches, currentBatchId, owner, the provider set, paused, cooldownSeconds
\* and the submission timestamps are unchanged; a successful myCallback
\* changes only the processed flag of its own request.
C23_RequestAndCallbackFrame ==
    [][/\ (IsCall(lastCall', "requestAverageDecryption") /\ lastCall'.err = "ok")
            => /\ UNCHANGED <<batches, currentBatchId, owner, isProvider, paused,
                              cooldownSeconds, lastSubmissionTime>>
               /\ \A a \in Address \ {lastCall'.sender} :
                     lastDecryptionRequestTime'[a] = lastDecryptionRequestTime[a]
               /\ lastDecryptionRequestTime'[lastCall'.sender] = now
               /\ \E r \in RequestIds :
                     /\ ~Stored(r) /\ Stored(r)'
                     /\ decryptionContexts'[r] =
                            [batchId |-> lastCall'.arg,
                             stateHash |-> stateHashOf(lastCall'.arg),
                             processed |-> FALSE]
                     /\ \A q \in RequestIds \ {r} :
                           /\ decryptionContexts'[q] = decryptionContexts[q]
                           /\ Stored(q)' = Stored(q)
       /\ (IsCall(lastCall', "myCallback") /\ lastCall'.err = "ok")
            => /\ UNCHANGED <<batches, currentBatchId, owner, isProvider, paused,
                              cooldownSeconds, lastSubmissionTime,
                              lastDecryptionRequestTime, counterRequest>>
               /\ decryptionContexts' =
                     [decryptionContexts EXCEPT ![lastCall'.arg].processed = TRUE]
               /\ ~decryptionContexts[lastCall'.arg].processed]_vars

\* C23 witness: a second request was stored for a closed batch that holds
\* data, and the batch kept its count.
C23_Witness ==
    /\ IsCall(lastCall, "requestAverageDecryption") /\ lastCall.err = "ok"
    /\ counterRequest = 2
    /\ ~batches[lastCall.arg].isOpen /\ batches[lastCall.arg].dataCount = MaxData
    /\ decryptionContexts[1].batchId = lastCall.arg
    /\ ~decryptionContexts[1].processed


\* the check of line 127 rejects a submission by a with CooldownActive
SubmissionCooldownActive(a) ==
    /\ lastSubmissionTime[a] + cooldownSeconds <= UintMax
    /\ now < lastSubmissionTime[a] + cooldownSeconds

\* the check of line 142 rejects a request by a with CooldownActive
RequestCooldownActive(a) ==
    /\ lastDecryptionRequestTime[a] + cooldownSeconds <= UintMax
    /\ now < lastDecryptionRequestTime[a] + cooldownSeconds

\* a submission writes lastSubmissionTime of its sender only, a request
\* lastDecryptionRequestTime of its sender only, and neither puts its
\* sender into the cooldown of the other class
TimestampTablesIndependent ==
    /\ (IsCall(lastCall', "submitData") /\ lastCall'.err = "ok")
         => /\ lastDecryptionRequestTime' = lastDecryptionRequestTime
            /\ \A b \in Address \ {lastCall'.sender} :
                  lastSubmissionTime'[b] = lastSubmissionTime[b]
            /\ lastSubmissionTime'[lastCall'.sender] = now
    /\ (IsCall(lastCall', "requestAverageDecryption") /\ lastCall'.err = "ok")
         => /\ lastSubmissionTime' = lastSubmissionTime
            /\ \A b \in Address \ {lastCall'.sender} :
                  lastDecryptionRequestTime'[b] = lastDecryptionRequestTime[b]
            /\ lastDecryptionRequestTime'[lastCall'.sender] = now
    /\ \A a \in Users :
          /\ (IsCall(lastCall', "submitData") /\ lastCall'.sender = a)
                => (RequestCooldownActive(a)' => RequestCooldownActive(a))
          /\ (IsCall(lastCall', "requestAverageDecryption") /\ lastCall'.sender = a)
                => (SubmissionCooldownActive(a)' => SubmissionCooldownActive(a))

\* the transaction of this step, one of ops, puts an actor other than its
\* sender into a cooldown that actor was not in
PutsOtherIntoCooldown(ops) ==
    /\ lastCall'.op \in ops
    /\ \E b \in Users \ {lastCall'.sender} :
          \/ SubmissionCooldownActive(b)' /\ ~SubmissionCooldownActive(b)
          \/ RequestCooldownActive(b)' /\ ~RequestCooldownActive(b)

RateLimitedOps == {"submitData", "requestAverageDecryption"}

\* C24 as stated: the timestamp tables are independent, and no action at
\* all by A puts a different actor B into a cooldown.
C24_NoActionBlocksOthers ==
    [][/\ TimestampTablesIndependent
       /\ ~PutsOtherIntoCooldown(OwnerOps \cup RateLimitedOps \cup {"myCallback"})]_vars

\* C24: a submission by A writes lastSubmissionTime[A] only and a request by
\* A lastDecryptionRequestTime[A] only; A's submission never puts A's
\* request into cooldown, nor the reverse; and no transaction of A other
\* than a successful setCooldownSeconds, which changes the cooldown length
\* of every actor, puts a different actor B into a cooldown.
C24_CooldownsIndependent ==
    [][/\ TimestampTablesIndependent
       /\ ~PutsOtherIntoCooldown((OwnerOps \ {"setCooldownSeconds"})
                                    \cup RateLimitedOps \cup {"myCallback"})
       /\ PutsOtherIntoCooldown({"setCooldownSeconds"})
             => /\ lastCall'.err = "ok"
                /\ cooldownSeconds' # cooldownSeconds]_vars

\* C24 witness: A's submission was accepted while A's own last request is
\* still inside its cooldown, and B, who submitted earlier, is still
\* outside the submission cooldown.
C24_Witness ==
    /\ IsCall(lastCall, "submitData") /\ lastCall.err = "ok"
    /\ RequestCooldownActive(lastCall.sender)
    /\ \E b \in Users \ {lastCall.sender} :
          /\ HasSubmitted(b)
          /\ ~SubmissionCooldownActive(b)


\* C25: for every actor the recorded last-submission time and
\* last-decryption-request time never decrease, and each changes only by
\* that actor's own successful action of the matching class, to the time
\* of that action.
C25_TimestampsMonotone ==
    [][\A a \in Address :
          /\ lastSubmissionTime'[a] >= lastSubmissionTime[a]
          /\ lastSubmissionTime'[a] # lastSubmissionTime[a]
                => /\ IsCall(lastCall', "submitData")
                   /\ lastCall'.sender = a /\ lastCall'.err = "ok"
                   /\ lastSubmissionTime'[a] = now /\ now' = now
          /\ lastDecryptionRequestTime'[a] >= lastDecryptionRequestTime[a]
          /\ lastDecryptionRequestTime'[a] # lastDecryptionRequestTime[a]
                => /\ IsCall(lastCall', "requestAverageDecryption")
                   /\ lastCall'.sender = a /\ lastCall'.err = "ok"
                   /\ lastDecryptionRequestTime'[a] = now /\ now' = now]_vars

\* C25 witness: the only submitting actor's second submission moved its
\* timestamp from the earlier recorded time to the current one.
C25_Witness ==
    /\ IsCall(lastCall, "submitData") /\ lastCall.err = "ok"
    /\ lastSubmissionTime[lastCall.sender] = now
    /\ batches[currentBatchId].dataCount = 2
    /\ \A b \in Users \ {lastCall.sender} : ~HasSubmitted(b)
    /\ now = 2 * TimeStep

\* C26: the cooldown check of submitData and requestAverageDecryption
\* either admits the actor or fails with CooldownActive: the sum of the
\* recorded time and cooldownSeconds never overflows, so neither operation
\* aborts with an arithmetic error.
C26_NoArithmeticAbort ==
    lastCall.op \in RateLimitedOps => lastCall.err # "Panic"

\* C27: the batch currentBatchId is always open, submitData never fails
\* with BatchClosedOrInvalid, and a submission by a provider that is not
\* paused and not in cooldown succeeds and is counted in batch
\* currentBatchId.
C27_SubmitNeverBatchClosed ==
    /\ [](batches[currentBatchId].isOpen)
    /\ [][IsCall(lastCall', "submitData")
            => /\ lastCall'.err # "BatchClosedOrInvalid"
               /\ (/\ isProvider[lastCall'.sender] /\ ~paused
                   /\ now >= lastSubmissionTime[lastCall'.sender] + cooldownSeconds)
                     => /\ lastCall'.err = "ok"
                        /\ currentBatchId' = currentBatchId
                        /\ batches'[currentBatchId].dataCount =
                               batches[currentBatchId].dataCount + 1
                        /\ lastEvents' =
                               <<<<"DataSubmitted", lastCall'.sender, currentBatchId,
                                   batches'[currentBatchId].dataCount>>>>]_vars

\* C27 witness: after a rotation a submission filled the new current batch.
C27_Witness ==
    /\ IsCall(lastCall, "submitData") /\ lastCall.err = "ok"
    /\ currentBatchId = MaxBatch
    /\ lastEvents = <<<<"DataSubmitted", lastCall.sender, MaxBatch, MaxData>>>>

\* C28: a successful transferOwnership(newOwner) changes the owner field
\* and nothing else: the provider set is as before, so the previous owner
\* keeps the provider role and newOwner does not get it, and a submission
\* by an owner that is not a provider is rejected with NotProvider.
C28_TransferChangesOwnerOnly ==
    [][/\ (IsCall(lastCall', "transferOwnership") /\ lastCall'.err = "ok")
            => /\ owner' = lastCall'.arg
               /\ UNCHANGED <<isProvider, paused, cooldownSeconds,
                              lastSubmissionTime, lastDecryptionRequestTime,
                              batches, currentBatchId, decryptionContexts,
                              counterRequest>>
       /\ (/\ IsCall(lastCall', "submitData")
           /\ lastCall'.sender = owner /\ ~isProvider[owner])
            => lastCall'.err = "NotProvider" /\ UNCHANGED storage]_vars

\* C28 witness: the new owner, never added as a provider, was rejected
\* with NotProvider while the deployer is still a provider.
C28_Witness ==
    /\ IsCall(lastCall, "submitData") /\ lastCall.err = "NotProvider"
    /\ lastCall.sender = owner /\ owner # Deployer
    /\ isProvider[Deployer] /\ ~isProvider[owner]
    /\ ~paused

====
